---- MODULE Spec2Model ----
(***************************************************************************)
(* A model of src/fsm/fsm.py: the class FSM (a registry of states and      *)
(* guarded transitions driven by the generator FSM.task) and the           *)
(* module-level script of lines 167-178 that builds and runs a machine.    *)
(*                                                                         *)
(* An FSM object is modelled together with what a caller can observe of    *)
(* it: the entry callbacks that ran (out), the guards the last call        *)
(* evaluated (evald) and the last call with its outcome (call).  Entry     *)
(* callbacks and guards are caller-supplied callables; they are drawn      *)
(* from the small sets Callbacks and Conditions, are total and raise       *)
(* nothing.                                                                *)
(***************************************************************************)
EXTENDS Integers, Sequences, FiniteSets, TLC

\* ------------------------------------------------------------------ bounds

\* Calls a caller makes on one FSM object, beyond the module-level script.
MaxCalls == 3

\* Longest transition list a caller builds on one state.
MaxTransitions == 3

\* ------------------------------------------------------- the caller's inputs

\* Identifiers a caller passes as state_id, origin_state and destiny_state:
\* two the script registers (it registers 0, 1 and 2) and one it does not.
StateIds == {0, 1, 5}

\* Entry callbacks a caller passes: each prints its own marker, as the
\* lambdas of lines 168-170 do ("estado1", "estado2", "estado3").
Callbacks == {"estado1", "estado2"}

\* Guards a caller passes: the lambda of line 172 and the two constant
\* guards; the script passes "eq2", "eq3" and "eq0" (lines 171-173).
Conditions == {"eq3", "always", "never"}

\* Values a caller passes to send: Python's None and two of the integers the
\* script sends (it sends 2, 3, 0, 3).
None == [isNone |-> TRUE, num |-> 0]

Num(n) == [isNone |-> FALSE, num |-> n]

Values == {None, Num(2), Num(3)}

\* Lines of the module-level script: its first call and the line after its last.
DemoFirst == 168

DemoEnd == 179

\* --------------------------------------------------------------- the state

VARIABLES
    states,           \* self.states: state_id -> [func, transitions]
    current_state,    \* self.current_state
    task_gen,         \* self.task_gen: "created", "suspended" (parked at the
                      \*   yield of line 156) or "finished" (ended by an exception)
    exec_state_func,  \* the local exec_state_func of FSM.task
    out,              \* the entry callbacks that have run, in order
    evald,            \* the guards the last call evaluated: <<origin, index>>
    call,             \* the last call: its name, arguments and outcome
    fired,            \* number of send calls in which a transition fired and
                      \*   its destination was entered
    restarted,        \* start has been called on a generator already run
    forward,          \* the transitions <<origin, index>> that were added
                      \*   while their destination was not registered
    late,             \* the transitions <<origin, index>> that were added
                      \*   while the generator was parked at the yield
    removed,          \* the identifiers del_state has removed at some time
    calls,            \* number of calls made by the caller
    instance,         \* "module": the object fsm of line 167; "caller": an
                      \*   FSM() a caller constructed
    pc                \* the next line of the module-level script

vars == <<states, current_state, task_gen, exec_state_func, out, evald, call,
          fired, restarted, forward, late, removed, calls, instance, pc>>

\* The record of a call: op(a, b, f) or op(v), typed says whether the
\* arguments pass the isinstance/callable tests, err is the exception raised
\* ("ok": none).  Arguments the call did not get to read are left out: all
\* of them when the type test fails, the destination and the guard when
\* add_transition does not find its origin.
Call(op, a, b, f, typed, v, err) ==
    [op |-> op, a |-> a, b |-> b, f |-> f, typed |-> typed, v |-> v, err |-> err]

\* The empty dict.
EmptyDict == [k \in {} |-> 0]

\* ------------------------------------------------------------ FSM.__init__

FsmInit ==
    /\ states = EmptyDict
    /\ current_state = 0
    /\ task_gen = "created"
    /\ exec_state_func = TRUE
    /\ out = <<>>
    /\ evald = <<>>
    /\ call = Call("__init__", 0, 0, "", TRUE, None, "ok")
    /\ fired = 0
    /\ restarted = FALSE
    /\ forward = {}
    /\ late = {}
    /\ removed = {}

\* ---------------------------------------------------------------- guards

\* transition['condition'](value_to_transition)
Cond(condition, value) ==
    CASE condition = "eq2" -> (~value.isNone /\ value.num = 2)
      [] condition = "eq3" -> (~value.isNone /\ value.num = 3)
      [] condition = "eq0" -> (~value.isNone /\ value.num = 0)
      [] condition = "always" -> TRUE
      [] condition = "never" -> FALSE

\* A mutant of FirstMatch: the last transition whose guard accepts.
LastMatch(transitions, value) ==
    LET hits == {i \in 1..Len(transitions) : Cond(transitions[i].condition, value)}
    IN  IF hits = {} THEN 0 ELSE CHOOSE i \in hits : \A j \in hits : j <= i

\* The for loop of FSM.task: the index of the transition at which it breaks,
\* 0 when it runs to the end of the list.
FirstMatch(transitions, value) ==
    LET hits == {i \in 1..Len(transitions) : Cond(transitions[i].condition, value)}
    IN  IF hits = {} THEN 0 ELSE CHOOSE i \in hits : \A j \in hits : i <= j

\* ------------------------------------------------------------- FSM.task

\* What one run of the generator leaves behind: the fields it writes, the
\* guards it evaluated and the exception it raised into next()/send().
Frame(cs, exec, gen, o, ev, err) ==
    [current_state |-> cs, exec_state_func |-> exec, task_gen |-> gen,
     out |-> o, evald |-> ev, err |-> err]


\* A mutant of LoopTop: line 155 is missing, the flag is never cleared.
LoopTopKeepFlag(cs, exec, o, ev) ==
    IF exec
    THEN IF cs \in DOMAIN states
         THEN Frame(cs, TRUE, "suspended", Append(o, states[cs].func), ev, "ok")
         ELSE Frame(cs, exec, "finished", o, ev, "KeyError")
    ELSE Frame(cs, exec, "suspended", o, ev, "ok")

\* A mutant of LoopTop: the entry callback is skipped when the state entered
\* is the state the machine was in.
LoopTopSkipSelf(cs, exec, o, ev) ==
    IF exec
    THEN IF cs \in DOMAIN states
         THEN Frame(cs, FALSE, "suspended",
                    IF cs = current_state /\ task_gen = "suspended"
                    THEN o ELSE Append(o, states[cs].func), ev, "ok")
         ELSE Frame(cs, exec, "finished", o, ev, "KeyError")
    ELSE Frame(cs, exec, "suspended", o, ev, "ok")

\* The top of the while loop down to the yield: with the flag set, the entry
\* callback of the current state runs and the flag is cleared; looking up a
\* state that is not in self.states raises KeyError out of the generator,
\* which ends it.  Then the generator parks at the yield.
LoopTop(cs, exec, o, ev) ==
    IF exec
    THEN IF cs \in DOMAIN states
         THEN Frame(cs, FALSE, "suspended", Append(o, states[cs].func), ev, "ok")
         ELSE Frame(cs, exec, "finished", o, ev, "KeyError")
    ELSE Frame(cs, exec, "suspended", o, ev, "ok")

\* A mutant of Begin: exec_state_func starts out False.
BeginNoEntry == LoopTop(0, FALSE, out, <<>>)

\* The first run of the generator: from its first line to the yield.
Begin == LoopTop(0, TRUE, out, <<>>)

\* A run of the generator from the yield, which returns value: the scan of
\* the current state's transitions, then the top of the loop again.
Resume(value) ==
    IF current_state \notin DOMAIN states
    THEN Frame(current_state, exec_state_func, "finished", out, <<>>, "KeyError")
    ELSE LET transitions == states[current_state].transitions
             k == FirstMatch(transitions, value)
             n == IF k = 0 THEN Len(transitions) ELSE k
             ev == [i \in 1..n |-> <<current_state, i>>]
         IN  IF k = 0
             THEN LoopTop(current_state, exec_state_func, out, ev)
             ELSE LoopTop(transitions[k].destiny_state, TRUE, out, ev)

\* Whether a run from the yield with value takes a transition: the for loop
\* breaks.
Took(value) ==
    /\ current_state \in DOMAIN states
    /\ FirstMatch(states[current_state].transitions, value) # 0

\* generator.send(value): a generator that has not run yet takes only None
\* and then runs from its first line; a parked one resumes at the yield; a
\* finished one raises StopIteration.
GenSend(value) ==
    CASE task_gen = "created" ->
            IF value = None
            THEN Begin
            ELSE Frame(current_state, exec_state_func, task_gen, out, <<>>, "TypeError")
      [] task_gen = "suspended" -> Resume(value)
      [] task_gen = "finished" ->
            Frame(current_state, exec_state_func, task_gen, out, <<>>, "StopIteration")

\* next(generator) is generator.send(None).
GenNext == GenSend(None)

\* The fields a run of the generator writes.
Ran(frame) ==
    /\ current_state' = frame.current_state
    /\ exec_state_func' = frame.exec_state_func
    /\ task_gen' = frame.task_gen
    /\ out' = frame.out
    /\ evald' = frame.evald

\* ------------------------------------------------------------ the methods

\* What a method that only reads or writes the registry leaves alone.
NoRun ==
    /\ UNCHANGED <<current_state, task_gen, exec_state_func, out, fired, restarted>>
    /\ evald' = <<>>

\* A mutant of add_state: a registered identifier is overwritten.
add_state_overwrite(state_id, callback, typed) ==
    /\ NoRun
    /\ UNCHANGED <<forward, late, removed>>
    /\ IF ~typed
       THEN /\ call' = Call("add_state", 0, 0, "", typed, None,
                            "StateDeclarationError")
            /\ UNCHANGED states
       ELSE /\ call' = Call("add_state", state_id, 0, callback, typed, None, "ok")
            /\ states' = [k \in DOMAIN states \cup {state_id} |->
                            IF k = state_id
                            THEN [func |-> callback, transitions |-> <<>>]
                            ELSE states[k]]

\* A mutant of add_state: the entry callback is called at registration.
add_state_calls_back(state_id, callback, typed) ==
    /\ UNCHANGED <<current_state, task_gen, exec_state_func, fired, restarted>>
    /\ UNCHANGED <<forward, late, removed>>
    /\ evald' = <<>>
    /\ IF ~typed
       THEN /\ call' = Call("add_state", 0, 0, "", typed, None,
                            "StateDeclarationError")
            /\ UNCHANGED <<states, out>>
       ELSE IF state_id \in DOMAIN states
       THEN /\ call' = Call("add_state", state_id, 0, callback, typed, None,
                            "StateDeclarationError")
            /\ UNCHANGED <<states, out>>
       ELSE /\ call' = Call("add_state", state_id, 0, callback, typed, None, "ok")
            /\ out' = Append(out, callback)
            /\ states' = [k \in DOMAIN states \cup {state_id} |->
                            IF k = state_id
                            THEN [func |-> callback, transitions |-> <<>>]
                            ELSE states[k]]

\* A mutant of add_state: the state is written before the duplicate test,
\* which then raises.
add_state_insert_first(state_id, callback, typed) ==
    /\ NoRun
    /\ UNCHANGED <<forward, late, removed>>
    /\ IF ~typed
       THEN /\ call' = Call("add_state", 0, 0, "", typed, None,
                            "StateDeclarationError")
            /\ UNCHANGED states
       ELSE /\ call' = Call("add_state", state_id, 0, callback, typed, None,
                            IF state_id \in DOMAIN states
                            THEN "StateDeclarationError" ELSE "ok")
            /\ states' = [k \in DOMAIN states \cup {state_id} |->
                            IF k = state_id
                            THEN [func |-> callback, transitions |-> <<>>]
                            ELSE states[k]]

\* FSM.add_state
add_state(state_id, callback, typed) ==
    /\ NoRun
    /\ UNCHANGED <<forward, late, removed>>
    /\ IF ~typed
       THEN /\ call' = Call("add_state", 0, 0, "", typed, None,
                            "StateDeclarationError")
            /\ UNCHANGED states
       ELSE IF state_id \in DOMAIN states
       THEN /\ call' = Call("add_state", state_id, 0, callback, typed, None,
                            "StateDeclarationError")
            /\ UNCHANGED states
       ELSE /\ call' = Call("add_state", state_id, 0, callback, typed, None, "ok")
            /\ states' = [k \in DOMAIN states \cup {state_id} |->
                            IF k = state_id
                            THEN [func |-> callback, transitions |-> <<>>]
                            ELSE states[k]]

\* A mutant of del_state: the transitions of other states that target the
\* state are removed with it.
del_state_cascade(state_id) ==
    /\ NoRun
    /\ IF state_id \in DOMAIN states
       THEN /\ call' = Call("del_state", state_id, 0, "", TRUE, None, "ok")
            /\ states' = [k \in DOMAIN states \ {state_id} |->
                            [states[k] EXCEPT !.transitions =
                                SelectSeq(@, LAMBDA t : t.destiny_state # state_id)]]
            /\ forward' = {t \in forward : t[1] # state_id}
            /\ late' = {t \in late : t[1] # state_id}
            /\ removed' = removed \cup {state_id}
       ELSE /\ call' = Call("del_state", state_id, 0, "", TRUE, None, "KeyError")
            /\ UNCHANGED <<states, forward, late, removed>>

\* FSM.del_state
del_state(state_id) ==
    /\ NoRun
    /\ IF state_id \in DOMAIN states
       THEN /\ call' = Call("del_state", state_id, 0, "", TRUE, None, "ok")
            /\ states' = [k \in DOMAIN states \ {state_id} |-> states[k]]
            /\ forward' = {t \in forward : t[1] # state_id}
            /\ late' = {t \in late : t[1] # state_id}
            /\ removed' = removed \cup {state_id}
       ELSE /\ call' = Call("del_state", state_id, 0, "", TRUE, None, "KeyError")
            /\ UNCHANGED <<states, forward, late, removed>>

\* A mutant of add_transition: the destination must be registered too.
add_transition_eager(origin_state, destiny_state, callback, typed) ==
    /\ NoRun
    /\ UNCHANGED removed
    /\ IF ~typed
       THEN /\ call' = Call("add_transition", 0, 0, "", typed, None,
                            "StateDeclarationError")
            /\ UNCHANGED <<states, forward, late>>
       ELSE IF origin_state \notin DOMAIN states \/ destiny_state \notin DOMAIN states
       THEN /\ call' = Call("add_transition", origin_state, destiny_state, callback,
                            typed, None, "KeyError")
            /\ UNCHANGED <<states, forward, late>>
       ELSE /\ call' = Call("add_transition", origin_state, destiny_state, callback,
                            typed, None, "ok")
            /\ states' = [states EXCEPT ![origin_state].transitions =
                            Append(@, [destiny_state |-> destiny_state,
                                       condition |-> callback])]
            /\ UNCHANGED <<forward, late>>

\* A mutant of add_transition: the transition is inserted at the head of
\* the origin's list.
add_transition_prepend(origin_state, destiny_state, callback, typed) ==
    /\ NoRun
    /\ UNCHANGED removed
    /\ IF ~typed
       THEN /\ call' = Call("add_transition", 0, 0, "", typed, None,
                            "StateDeclarationError")
            /\ UNCHANGED <<states, forward, late>>
       ELSE IF origin_state \notin DOMAIN states
       THEN /\ call' = Call("add_transition", origin_state, 0, "", typed, None,
                            "KeyError")
            /\ UNCHANGED <<states, forward, late>>
       ELSE /\ call' = Call("add_transition", origin_state, destiny_state, callback,
                            typed, None, "ok")
            /\ states' = [states EXCEPT ![origin_state].transitions =
                            <<[destiny_state |-> destiny_state,
                               condition |-> callback]>> \o @]
            /\ UNCHANGED <<forward, late>>

\* FSM.add_transition
add_transition(origin_state, destiny_state, callback, typed) ==
    /\ NoRun
    /\ UNCHANGED removed
    /\ IF ~typed
       THEN /\ call' = Call("add_transition", 0, 0, "", typed, None,
                            "StateDeclarationError")
            /\ UNCHANGED <<states, forward, late>>
       ELSE IF origin_state \notin DOMAIN states
       THEN /\ call' = Call("add_transition", origin_state, 0, "", typed, None,
                            "KeyError")
            /\ UNCHANGED <<states, forward, late>>
       ELSE /\ call' = Call("add_transition", origin_state, destiny_state, callback,
                            typed, None, "ok")
            /\ states' = [states EXCEPT ![origin_state].transitions =
                            Append(@, [destiny_state |-> destiny_state,
                                       condition |-> callback])]
            /\ forward' = IF destiny_state \in DOMAIN states
                          THEN forward
                          ELSE forward \cup
                               {<<origin_state,
                                  Len(states[origin_state].transitions) + 1>>}
            /\ late' = IF task_gen = "suspended"
                       THEN late \cup
                            {<<origin_state,
                               Len(states[origin_state].transitions) + 1>>}
                       ELSE late

\* FSM.start
start ==
    /\ Ran(GenNext)
    /\ call' = Call("start", 0, 0, "", TRUE, None, GenNext.err)
    /\ restarted' = (restarted \/ task_gen # "created")
    /\ UNCHANGED <<states, fired, forward, late, removed>>

\* FSM.send
send(value_to_send) ==
    /\ Ran(GenSend(value_to_send))
    /\ call' = Call("send", 0, 0, "", TRUE, value_to_send, GenSend(value_to_send).err)
    /\ fired' = IF /\ task_gen = "suspended"
                   /\ Took(value_to_send)
                   /\ GenSend(value_to_send).err = "ok"
                THEN fired + 1
                ELSE fired
    /\ UNCHANGED <<states, restarted, forward, late, removed>>

\* ------------------------------------------------ the module-level script

\* Lines 168-178, one call per line, on the object fsm of line 167.
DemoStep ==
    /\ instance = "module"
    /\ pc < DemoEnd
    /\ pc' = pc + 1
    /\ UNCHANGED <<calls, instance>>
    /\ CASE pc = 168 -> add_state(0, "estado1", TRUE)
         [] pc = 169 -> add_state(1, "estado2", TRUE)
         [] pc = 170 -> add_state(2, "estado3", TRUE)
         [] pc = 171 -> add_transition(0, 1, "eq2", TRUE)
         [] pc = 172 -> add_transition(1, 2, "eq3", TRUE)
         [] pc = 173 -> add_transition(2, 0, "eq0", TRUE)
         [] pc = 174 -> start
         [] pc = 175 -> send(Num(2))
         [] pc = 176 -> send(Num(3))
         [] pc = 177 -> send(Num(0))
         [] pc = 178 -> send(Num(3))

\* ---------------------------------------------------- calls by a caller

\* A caller calls once the script, if it runs on this object, has ended.
CallerTurn ==
    /\ instance = "module" => pc = DemoEnd
    /\ calls < MaxCalls
    /\ calls' = calls + 1
    /\ UNCHANGED <<instance, pc>>

CallAddState ==
    /\ CallerTurn
    /\ \E state_id \in StateIds, callback \in Callbacks, typed \in BOOLEAN :
          add_state(state_id, callback, typed)

CallDelState ==
    /\ CallerTurn
    /\ \E state_id \in StateIds : del_state(state_id)

CallAddTransition ==
    /\ CallerTurn
    /\ \E origin_state \in StateIds, destiny_state \in StateIds,
          callback \in Conditions, typed \in BOOLEAN :
          /\ origin_state \in DOMAIN states =>
                Len(states[origin_state].transitions) < MaxTransitions
          /\ add_transition(origin_state, destiny_state, callback, typed)

CallStart ==
    /\ CallerTurn
    /\ start

CallSend ==
    /\ CallerTurn
    /\ \E value_to_send \in Values : send(value_to_send)

\* ------------------------------------------------------ the specification

Init ==
    /\ FsmInit
    /\ calls = 0
    /\ \/ instance = "module" /\ pc = DemoFirst
       \/ instance = "caller" /\ pc = DemoEnd

Next ==
    \/ DemoStep
    \/ CallAddState
    \/ CallDelState
    \/ CallAddTransition
    \/ CallStart
    \/ CallSend

Spec == Init /\ [][Next]_vars

\* ------------------------------------------------------------ the claims

\* The machine is Running: the generator is parked at the yield, and the
\* state it is in is registered.
Running == task_gen = "suspended" /\ current_state \in DOMAIN states

\* The transitions of the state the machine is in.
Outgoing == states[current_state].transitions

\* The positions of Outgoing whose guard accepts value and before which no
\* guard accepts it: none, or one.
Accepting(value) ==
    {k \in 1..Len(Outgoing) :
        /\ Cond(Outgoing[k].condition, value)
        /\ \A j \in 1..(k - 1) : ~Cond(Outgoing[j].condition, value)}

\* The guards 1..n of the state the machine is in, in the order registered.
Scanned(n) == [i \in 1..n |-> <<current_state, i>>]

\* C1: a send on a Running machine evaluates the guards of the current
\* state only, in the order registered, up to and including the first that
\* accepts the input, moves to that transition's destination and evaluates
\* no guard registered after it; when none accepts it evaluates them all.
C1_FirstMatchWins ==
    [][(Running /\ call'.op = "send") =>
          /\ \A k \in Accepting(call'.v) :
                /\ evald' = Scanned(k)
                /\ current_state' = Outgoing[k].destiny_state
          /\ Accepting(call'.v) = {} => evald' = Scanned(Len(Outgoing))]_vars

\* C1 witness: a send went past a first guard that refused the input, took
\* the second, and left unevaluated a third that accepts it too.
C1_Witness ==
    /\ call.op = "send"
    /\ Len(evald) = 2
    /\ evald[1][1] \in DOMAIN states
    /\ LET transitions == states[evald[1][1]].transitions
       IN  /\ Len(transitions) >= 3
           /\ ~Cond(transitions[1].condition, call.v)
           /\ Cond(transitions[2].condition, call.v)
           /\ Cond(transitions[3].condition, call.v)
           /\ transitions[3].destiny_state # transitions[2].destiny_state
           /\ current_state = transitions[2].destiny_state

\* C2: start on a new machine with state 0 registered runs one entry
\* callback; a send on a Running machine in which a transition fires toward
\* a registered state N runs N's entry callback exactly once, also when N is
\* the state the machine was in, and any other send on a Running machine
\* runs none; so, as long as start is not called again, the entry callbacks
\* that have run number 1 plus the sends in which a transition fired.
C2_EntryActionCount ==
    [][/\ (task_gen = "created" /\ call'.op = "start" /\ 0 \in DOMAIN states) =>
             out' = Append(out, states[0].func)
       /\ (Running /\ call'.op = "send") =>
             /\ \A k \in Accepting(call'.v) :
                   IF Outgoing[k].destiny_state \in DOMAIN states
                   THEN out' = Append(out, states[Outgoing[k].destiny_state].func)
                   ELSE out' = out
             /\ Accepting(call'.v) = {} => out' = out
       /\ (~restarted' /\ out' # <<>>) => Len(out') = 1 + fired'
       /\ out' = <<>> => fired' = 0]_vars

\* C2 witness: after start, a send fired a transition from a state to
\* itself and the state's entry callback ran a second time.
C2_Witness ==
    /\ call.op = "send"
    /\ call.err = "ok"
    /\ ~restarted
    /\ fired >= 1
    /\ evald # <<>>
    /\ evald[Len(evald)][1] = current_state
    /\ current_state \in DOMAIN states
    /\ Cond(states[current_state].transitions[Len(evald)].condition, call.v)
    /\ Len(out) >= 2
    /\ out[Len(out)] = states[current_state].func
    /\ out[Len(out) - 1] = states[current_state].func

\* C3: a send on a Running machine whose input no guard of the current
\* state accepts (the state may have no transitions) returns normally and
\* leaves current_state, the registry and the entry callbacks run as they
\* were; the machine stays Running.
C3_UnmatchedIsNoOp ==
    [][(Running /\ call'.op = "send" /\ Accepting(call'.v) = {}) =>
          /\ call'.err = "ok"
          /\ current_state' = current_state
          /\ states' = states
          /\ out' = out
          /\ task_gen' = "suspended"]_vars

\* C3 witness: a send returned normally after every guard of the current
\* state, of which there is at least one, refused the input.
C3_Witness ==
    /\ call.op = "send"
    /\ call.err = "ok"
    /\ Running
    /\ evald = Scanned(Len(Outgoing))
    /\ Len(Outgoing) >= 1
    /\ \A i \in 1..Len(Outgoing) : ~Cond(Outgoing[i].condition, call.v)
    /\ out # <<>>

\* C4: a send on a Running machine whose first accepting transition targets
\* an identifier that is not registered fails with the not-found error
\* (KeyError), runs no entry callback and leaves current_state as it was.
C4_DanglingKeepsCurrent ==
    [][(Running /\ call'.op = "send") =>
          \A k \in Accepting(call'.v) :
             Outgoing[k].destiny_state \notin DOMAIN states =>
                /\ call'.err = "KeyError"
                /\ out' = out
                /\ current_state' = current_state]_vars

\* C5: once started the machine stays Running after every send, so that a
\* later send is processed: the generator is parked at the yield again.
C5_NoTerminalState ==
    [][(task_gen = "suspended" /\ call'.op = "send") =>
          task_gen' = "suspended"]_vars

\* The entry callbacks the script has run when it is about to execute line.
DemoOut(line) ==
    CASE line <= 174 -> <<>>
      [] line = 175 -> <<"estado1">>
      [] line = 176 -> <<"estado1", "estado2">>
      [] line = 177 -> <<"estado1", "estado2", "estado3">>
      [] line >= 178 -> <<"estado1", "estado2", "estado3", "estado1">>

\* C6: the script start(); send(2); send(3); send(0); send(3) on states
\* 0, 1, 2 with transitions 0->1 on 2, 1->2 on 3, 2->0 on 0 runs the entry
\* callbacks of 0, 1, 2, 0 in that order, one per call for the first four
\* calls; the last send(3) runs none; and current_state is 0 at the end.
C6_Demo ==
    (instance = "module" /\ calls = 0) =>
        /\ out = DemoOut(pc)
        /\ pc = DemoEnd => (current_state = 0 /\ call.err = "ok")

\* C6 witness: the script has run to its end; its last send evaluated the
\* one guard of state 0.
C6_Witness ==
    /\ instance = "module"
    /\ calls = 0
    /\ pc = DemoEnd
    /\ call.op = "send"
    /\ call.v = Num(3)
    /\ evald = <<<<0, 1>>>>

\* C7: add_state on an identifier that is registered fails with
\* StateDeclarationError and leaves the registry as it was: the state's
\* entry callback, its transition list and every other state.
C7_DuplicateRejected ==
    [][(call'.op = "add_state" /\ call'.typed /\ call'.a \in DOMAIN states) =>
          /\ call'.err = "StateDeclarationError"
          /\ states' = states]_vars

\* C7 witness: add_state with another callback was refused on a state that
\* has two transitions or more.
C7_Witness ==
    /\ call.op = "add_state"
    /\ call.typed
    /\ call.err = "StateDeclarationError"
    /\ call.a \in DOMAIN states
    /\ states[call.a].func # call.f
    /\ Len(states[call.a].transitions) >= 2

\* C8: add_transition with well-typed arguments and a registered origin
\* succeeds and appends the transition whether or not the destination is
\* registered; and a send on a Running machine whose first accepting
\* transition was added before its destination was registered, the
\* destination being registered by now, moves current_state to the
\* destination and runs its entry callback once.
C8_ForwardReference ==
    [][/\ (call'.op = "add_transition" /\ call'.typed /\ call'.a \in DOMAIN states) =>
             /\ call'.err = "ok"
             /\ states' = [states EXCEPT ![call'.a].transitions =
                              Append(@, [destiny_state |-> call'.b,
                                         condition |-> call'.f])]
       /\ (Running /\ call'.op = "send") =>
             \A k \in Accepting(call'.v) :
                (/\ <<current_state, k>> \in forward
                 /\ Outgoing[k].destiny_state \in DOMAIN states) =>
                    /\ call'.err = "ok"
                    /\ current_state' = Outgoing[k].destiny_state
                    /\ out' = Append(out, states[Outgoing[k].destiny_state].func)]_vars

\* C8 witness: a send took a transition that was added before its
\* destination was registered, and entered the destination.
C8_Witness ==
    /\ call.op = "send"
    /\ call.err = "ok"
    /\ evald # <<>>
    /\ evald[Len(evald)] \in forward
    /\ evald[Len(evald)][1] \in DOMAIN states
    /\ LET t == states[evald[Len(evald)][1]].transitions[Len(evald)]
       IN  /\ Cond(t.condition, call.v)
           /\ current_state = t.destiny_state
           /\ current_state \in DOMAIN states
           /\ out # <<>>
           /\ out[Len(out)] = states[current_state].func

\* C9: send on a machine on which start has not been called fails, whatever
\* the input, evaluates no guard, runs no entry callback and leaves the
\* machine not started.
C9_SendBeforeStart ==
    [][(task_gen = "created" /\ call'.op = "send") =>
          /\ call'.err # "ok"
          /\ evald' = <<>>
          /\ out' = out
          /\ task_gen' = "created"]_vars

\* C10: start on a machine that is started fails, evaluates no guard, runs
\* no entry callback and leaves current_state as it was.
C10_SecondStart ==
    [][(task_gen = "suspended" /\ call'.op = "start") =>
          /\ call'.err # "ok"
          /\ evald' = <<>>
          /\ out' = out
          /\ current_state' = current_state]_vars

\* The methods that declare: they read and write the registry only.
RegistryCalls == {"add_state", "del_state", "add_transition"}

\* C11: add_state, add_transition and del_state fail on malformed
\* arguments, on a duplicate identifier, on an unregistered origin and on an
\* absent identifier respectively, and a call that fails leaves the
\* registry (the registered states, every entry callback, every transition
\* list) as it was.
C11_FailedRegistrationNoEffect ==
    [][call'.op \in RegistryCalls =>
          /\ call'.err # "ok" => states' = states
          /\ ~call'.typed => call'.err # "ok"
          /\ (call'.op = "add_state" /\ call'.typed /\ call'.a \in DOMAIN states) =>
                call'.err # "ok"
          /\ (call'.op = "add_transition" /\ call'.typed
                /\ call'.a \notin DOMAIN states) =>
                call'.err # "ok"
          /\ (call'.op = "del_state" /\ call'.a \notin DOMAIN states) =>
                call'.err # "ok"]_vars

\* C11 witness: add_transition failed on an origin that is not registered,
\* in a registry that holds states with transitions.
C11_Witness ==
    /\ call.op = "add_transition"
    /\ call.typed
    /\ call.err = "KeyError"
    /\ call.a \notin DOMAIN states
    /\ \E k \in DOMAIN states : Len(states[k].transitions) >= 1

\* C12: add_transition with an identifier that is not an integer or a guard
\* that is not callable fails with TransitionDeclarationError, and with
\* well-typed arguments and an unregistered origin it fails with the
\* not-found error (KeyError).
C12_TransitionErrorKind ==
    [][call'.op = "add_transition" =>
          /\ ~call'.typed => call'.err = "TransitionDeclarationError"
          /\ (call'.typed /\ call'.a \notin DOMAIN states) =>
                call'.err = "KeyError"]_vars

\* C13: del_state on a registered identifier removes that state's record
\* and nothing else: every other state keeps its entry callback and its
\* transition list, transitions that target the removed state included,
\* and current_state is not written.
C13_DelStateNoCascade ==
    [][(call'.op = "del_state" /\ call'.a \in DOMAIN states) =>
          /\ call'.err = "ok"
          /\ DOMAIN states' = DOMAIN states \ {call'.a}
          /\ \A k \in DOMAIN states' : states'[k] = states[k]
          /\ current_state' = current_state]_vars

\* C13 witness: del_state removed the state the machine is in, and another
\* state still holds a transition that targets it.
C13_Witness ==
    /\ call.op = "del_state"
    /\ call.err = "ok"
    /\ call.a \notin DOMAIN states
    /\ current_state = call.a
    /\ \E k \in DOMAIN states : \E i \in 1..Len(states[k].transitions) :
          states[k].transitions[i].destiny_state = call.a

\* C14: start on a machine that has not run, with state 0 registered, runs
\* state 0's entry callback once, evaluates no guard, leaves current_state 0
\* and the machine parked at the yield with no entry callback pending; and
\* states other than 0 can be registered while state 0 is not.
C14_StartEntersZero ==
    [][/\ (task_gen = "created" /\ call'.op = "start" /\ 0 \in DOMAIN states) =>
             /\ call'.err = "ok"
             /\ out' = Append(out, states[0].func)
             /\ evald' = <<>>
             /\ current_state' = 0
             /\ task_gen' = "suspended"
             /\ exec_state_func' = FALSE
       /\ (call'.op = "add_state" /\ call'.typed /\ call'.a \notin DOMAIN states
             /\ 0 \notin DOMAIN states) =>
             call'.err = "ok"]_vars

\* C14 witness: the first start returned on a machine with several states
\* and a transition out of state 0; only state 0's entry callback has run.
C14_Witness ==
    /\ call.op = "start"
    /\ call.err = "ok"
    /\ ~restarted
    /\ 0 \in DOMAIN states
    /\ Cardinality(DOMAIN states) >= 2
    /\ Len(states[0].transitions) >= 1
    /\ out = <<states[0].func>>
    /\ current_state = 0
    /\ task_gen = "suspended"

\* C15: once start has succeeded, whenever control is back with the caller
\* current_state is an identifier that is registered.
C15_NoGhostState ==
    out # <<>> => current_state \in DOMAIN states

\* C16: add_state, add_transition and del_state run no entry callback,
\* evaluate no guard and write neither current_state nor the flag
\* exec_state_func nor the generator; a successful add_state only inserts
\* the new state with an empty transition list, and a successful
\* add_transition only appends one transition at the end of the origin's
\* list.
C16_RegistrationOnly ==
    [][call'.op \in RegistryCalls =>
          /\ out' = out
          /\ evald' = <<>>
          /\ current_state' = current_state
          /\ exec_state_func' = exec_state_func
          /\ task_gen' = task_gen
          /\ (call'.op = "add_state" /\ call'.err = "ok") =>
                /\ call'.a \notin DOMAIN states
                /\ DOMAIN states' = DOMAIN states \cup {call'.a}
                /\ states'[call'.a] = [func |-> call'.f, transitions |-> <<>>]
                /\ \A k \in DOMAIN states : states'[k] = states[k]
          /\ (call'.op = "add_transition" /\ call'.err = "ok") =>
                /\ DOMAIN states' = DOMAIN states
                /\ states'[call'.a].func = states[call'.a].func
                /\ states'[call'.a].transitions =
                      Append(states[call'.a].transitions,
                             [destiny_state |-> call'.b, condition |-> call'.f])
                /\ \A k \in DOMAIN states \ {call'.a} : states'[k] = states[k]]_vars

\* C16 witness: on a started machine, add_transition appended to the list
\* of the state the machine is in a transition whose guard accepts anything.
C16_Witness ==
    /\ call.op = "add_transition"
    /\ call.err = "ok"
    /\ task_gen = "suspended"
    /\ call.a = current_state
    /\ call.f = "always"
    /\ current_state \in DOMAIN states
    /\ Len(states[current_state].transitions) >= 2
    /\ evald = <<>>

\* C17: when start or send returns normally the generator is parked with
\* exec_state_func False: a call that entered a state (the first run, or a
\* transition taken) ran the entry callback of the state that is now
\* current, once, and a call that took no transition ran none.
C17_NoPendingEntry ==
    [][(call'.op \in {"start", "send"} /\ call'.err = "ok") =>
          /\ exec_state_func' = FALSE
          /\ task_gen' = "suspended"
          /\ current_state' \in DOMAIN states'
          /\ IF task_gen = "created"
             THEN out' = Append(out, states'[current_state'].func)
             ELSE IF Accepting(call'.v) # {}
             THEN out' = Append(out, states'[current_state'].func)
             ELSE out' = out]_vars

\* C17 witness: after a send that took a transition, a later send took none
\* and returned with the flag False.
C17_Witness ==
    /\ call.op = "send"
    /\ call.err = "ok"
    /\ fired >= 1
    /\ ~exec_state_func
    /\ Running
    /\ Len(evald) = Len(Outgoing)
    /\ Len(Outgoing) >= 1
    /\ ~Cond(Outgoing[Len(Outgoing)].condition, call.v)

\* C18: a send reads the transition list of the current state as it stands
\* at that send: a transition added while the machine was parked goes to
\* the end of its origin's list, after those registered earlier, and when
\* it is the first whose guard accepts the input of a send from that state,
\* that send takes it.
C18_RegistryReadLive ==
    [][/\ (task_gen = "suspended" /\ call'.op = "add_transition"
             /\ call'.err = "ok") =>
             LET before == states[call'.a].transitions
                 after == states'[call'.a].transitions
             IN  /\ Len(after) = Len(before) + 1
                 /\ SubSeq(after, 1, Len(before)) = before
                 /\ after[Len(after)] =
                       [destiny_state |-> call'.b, condition |-> call'.f]
                 /\ <<call'.a, Len(after)>> \in late'
       /\ (Running /\ call'.op = "send") =>
             \A k \in Accepting(call'.v) :
                <<current_state, k>> \in late =>
                   /\ evald' = Scanned(k)
                   /\ current_state' = Outgoing[k].destiny_state]_vars

\* C18 witness: a send went past a transition registered before start and
\* took one that was added after start.
C18_Witness ==
    /\ call.op = "send"
    /\ call.err = "ok"
    /\ Len(evald) >= 2
    /\ evald[Len(evald)] \in late
    /\ evald[1] \notin late
    /\ evald[1][1] \in DOMAIN states
    /\ LET t == states[evald[1][1]].transitions[Len(evald)]
       IN  /\ Cond(t.condition, call.v)
           /\ current_state = t.destiny_state

\* C19: del_state leaves the transitions of the other states, those that
\* target the removed state included; add_state on an identifier that was
\* removed gives it the new entry callback and an empty transition list and
\* leaves the other states as they were; and a send on a Running machine
\* whose first accepting transition targets a state that was removed and
\* registered again enters it and runs its new entry callback once.
C19_DeleteThenReRegister ==
    [][/\ (call'.op = "del_state" /\ call'.err = "ok") =>
             \A k \in DOMAIN states \ {call'.a} :
                k \in DOMAIN states' /\ states'[k].transitions = states[k].transitions
       /\ (call'.op = "add_state" /\ call'.err = "ok" /\ call'.a \in removed) =>
             /\ states'[call'.a] = [func |-> call'.f, transitions |-> <<>>]
             /\ \A k \in DOMAIN states : states'[k] = states[k]
       /\ (Running /\ call'.op = "send") =>
             \A k \in Accepting(call'.v) :
                LET n == Outgoing[k].destiny_state
                IN  (n \in removed /\ n \in DOMAIN states) =>
                       /\ call'.err = "ok"
                       /\ current_state' = n
                       /\ out' = Append(out, states[n].func)]_vars

\* C19 witness: on the object of the script, state 1 was removed and
\* registered again with another entry callback; the script's transition
\* 0->1 then took the machine into it, the new callback ran, and state 1
\* has no transition (the script's 1->2 is gone).
C19_Witness ==
    /\ instance = "module"
    /\ call.op = "send"
    /\ call.err = "ok"
    /\ evald = <<<<0, 1>>>>
    /\ current_state = 1
    /\ 1 \in removed
    /\ 1 \in DOMAIN states
    /\ states[1] = [func |-> "estado1", transitions |-> <<>>]
    /\ 0 \in DOMAIN states
    /\ states[0].transitions[1] = [destiny_state |-> 1, condition |-> "eq2"]
    /\ out[Len(out)] = "estado1"

====
